---- MODULE Spec2Model ----
(***************************************************************************)
(* Tiltify integration for Firebot: the connection state machine of        *)
(* TiltifyIntegration (connect / disconnect / onUserSettingsUpdate), its   *)
(* token check, its per-campaign donation store, and the poll service it   *)
(* drives.  The poll service (tiltify-poll-service) and the remote fetcher *)
(* (tiltify-remote) are modelled from the written design; everything else  *)
(* is modelled from src/src/tiltify-integration.ts.                        *)
(***************************************************************************)
EXTENDS Integers, Sequences, FiniteSets, TLC

VARIABLES
    connected,        \* TiltifyIntegration.connected
    timeout,          \* TiltifyIntegration.timeout (a timer handle or null)
    lastSignal,       \* the last of "connected" / "disconnected" emitted
    settings,         \* the user settings the host holds for the integration
    auth,             \* what integrationManager.getAuth returns
    networkUp,        \* whether calls to the remote service succeed right now
    conn,             \* connect() calls: each slot's position
    sessions,         \* the poll service's session per campaign
    ticks,            \* the ticks in flight per campaign (their loaded state)
    db,               \* the JsonDB store: the value under each data path
    remote,           \* the donations the remote service holds
    now,              \* the clock
    emitted,          \* DonationReceived events emitted, per donation id
    initialWatermark, \* per campaign, the watermark its first start set
    signals,          \* the signals emitted by the last step in which a call ended
    raised,           \* per campaign, the amount the remote service reports raised
    milestoneEvents,  \* MilestoneReached events emitted, per campaign and milestone
    cred,             \* the credentials the host holds (their generation), or null
    refreshed,        \* the last refreshToken() call: what it met and answered
    query,            \* the last on-demand query: what it met and answered
    loaded,           \* the last load call: the store it met and what it returned
    tokenCheck        \* the last direct isTokenValid() call: how its promise settled

\* What only a direct call of refreshToken(), of a query, of the store or of
\* isTokenValid() changes.
callVars == <<cred, refreshed, query, loaded, tokenCheck>>

vars == <<connected, timeout, lastSignal, settings, auth, networkUp,
          conn, sessions, ticks, db, remote, now, emitted, initialWatermark,
          signals, raised, milestoneEvents, callVars>>

----------------------------------------------------------------------------
(* Bounds of the model *)

MaxTime == 1
NumDonations == 2
MaxConnects == 2
MaxTimers == 2
MaxInFlight == 2
MaxEmit == 2
MaxRefresh == 2

(* Program constants *)

MsPerSecond == 1000
DefaultPollInterval == 5
Null == -1
NaN == -2

Campaigns == {"c1", "c2"}
DonationIds == 1..NumDonations
Times == 0..MaxTime
Slots == 1..MaxConnects
AuthStates == {"null", "noauth", "valid", "expired"}

\* TiltifySettings: campaignSettings.campaignId, integrationSettings.pollInterval
\* `present` names the keys integrationData holds; a key that is absent reads
\* as undefined, whatever the record's field says.
SettingKeys == {"userSettings", "campaignSettings", "campaignId", "integrationSettings",
                "pollInterval"}
DefaultSettings ==
    [campaignId |-> "c1", pollInterval |-> DefaultPollInterval, present |-> SettingKeys]
SettingsSet ==
    {DefaultSettings,
     [DefaultSettings EXCEPT !.pollInterval = 2 * DefaultPollInterval],
     [DefaultSettings EXCEPT !.campaignId = "c2"],
     [DefaultSettings EXCEPT !.campaignId = ""]}

\* Settings with keys missing: no userSettings, no campaignSettings, no
\* campaignId, no integrationSettings, no pollInterval.
ConfigSet ==
    SettingsSet \cup
    {[DefaultSettings EXCEPT !.present = {}],
     [DefaultSettings EXCEPT !.present = {"userSettings", "integrationSettings", "pollInterval"}],
     [DefaultSettings EXCEPT !.present = SettingKeys \ {"campaignId"}],
     [DefaultSettings EXCEPT !.present = SettingKeys \ {"integrationSettings", "pollInterval"}],
     [DefaultSettings EXCEPT !.present = SettingKeys \ {"pollInterval"}]}

The(S) == CHOOSE x \in S : TRUE

----------------------------------------------------------------------------
(* The store: a JsonDB document.  Every value lives under a data path, the
   string "/tiltify/{campaignId}/{key}" split at the separator "/"; a path
   holds no value ({}) or one value.  A campaign identifier is put into the
   path as it is, so an identifier that contains the separator spans more
   than one segment, and its paths lie below a path of the campaign named by
   its first segments.  db[c][key] is what the path of campaign c and key
   holds. *)

StoreCampaigns == Campaigns \cup {"c1/ids"}
Keys == {"milestones", "ids", "lastDonationDate"}

\* The segments a campaign identifier splits into at the separator.
Segments(c) == IF c = "c1/ids" THEN <<"c1", "ids">> ELSE <<c>>

\* `/tiltify/${campaignId}/${key}`, as JsonDB splits it.
DataPath(c, key) == <<"tiltify">> \o Segments(c) \o <<key>>

IsPrefix(p, q) == Len(p) <= Len(q) /\ SubSeq(q, 1, Len(p)) = p

\* The campaigns whose paths lie below the path of campaign c and key.
Nested ==
    [c \in StoreCampaigns |->
        [key \in Keys |->
            {c2 \in StoreCampaigns :
                \A k2 \in Keys : /\ IsPrefix(DataPath(c, key), DataPath(c2, k2))
                                 /\ DataPath(c, key) # DataPath(c2, k2)}]]
Under(c, key) == Nested[c][key]

NoValues == [milestones |-> {}, ids |-> {}, lastDonationDate |-> {}]
EmptyStore == [c \in StoreCampaigns |-> NoValues]

\* The path holds a value, or is an object holding values below: getData
\* returns; else it throws.
Exists(d, c, key) == d[c][key] # {} \/ \E c2 \in Under(c, key) : d[c2] # NoValues

\* JsonDB.getData of a path that exists: its value, or the object below it.
GetData(d, c, key) ==
    IF d[c][key] # {} THEN The(d[c][key])
    ELSE [c2 \in {x \in Under(c, key) : d[x] # NoValues} |-> d[c2]]

\* JsonDB.push with override: the value replaces whatever the path held,
\* the values below it included.
Push(d, c, key, v) ==
    [c2 \in StoreCampaigns |->
        IF c2 = c THEN [d[c] EXCEPT ![key] = {v}]
        ELSE IF c2 \in Under(c, key) THEN NoValues
        ELSE d[c2]]

\* loadDonations reading the date under a key that is never written.
LoadDonations_MissesDate(d, c) ==
    [lastDonationDate |-> Null,
     ids |-> IF Exists(d, c, "ids") THEN GetData(d, c, "ids") ELSE <<>>,
     db |-> IF Exists(d, c, "ids") THEN d ELSE Push(d, c, "ids", <<>>)]

\* loadDonations that never finds the saved ids.
LoadDonations_ForgetsIds(d, c) ==
    [lastDonationDate |-> IF Exists(d, c, "lastDonationDate")
                          THEN GetData(d, c, "lastDonationDate") ELSE Null,
     ids |-> <<>>,
     db |-> IF Exists(d, c, "ids") THEN d ELSE Push(d, c, "ids", <<>>)]

\* loadDonations: a missing date reads as null; missing ids read as [] and
\* the empty list is pushed to the store.
LoadDonations(d, c) ==
    [lastDonationDate |-> IF Exists(d, c, "lastDonationDate")
                          THEN GetData(d, c, "lastDonationDate") ELSE Null,
     ids |-> IF Exists(d, c, "ids") THEN GetData(d, c, "ids") ELSE <<>>,
     db |-> IF Exists(d, c, "ids") THEN d ELSE Push(d, c, "ids", <<>>)]

\* saveDonations of which only the pushes in `done` reach the store.
SaveDonationsPushes(d, c, lastDonationDate, ids, done) ==
    LET d1 == IF "ids" \in done THEN Push(d, c, "ids", ids) ELSE d
    IN IF "lastDonationDate" \in done
       THEN Push(d1, c, "lastDonationDate", lastDonationDate)
       ELSE d1

\* saveDonations with the push of the ids left out.
SaveDonations_DropsIds(d, c, lastDonationDate, ids) ==
    SaveDonationsPushes(d, c, lastDonationDate, ids, {"lastDonationDate"})

\* saveDonations with the push of the date left out.
SaveDonations_DropsDate(d, c, lastDonationDate, ids) ==
    SaveDonationsPushes(d, c, lastDonationDate, ids, {"ids"})

\* saveDonations: pushes the ids, then the date.
SaveDonations(d, c, lastDonationDate, ids) ==
    SaveDonationsPushes(d, c, lastDonationDate, ids, {"ids", "lastDonationDate"})

\* loadMilestones: missing milestones read as [].
LoadMilestones(d, c) ==
    IF Exists(d, c, "milestones") THEN GetData(d, c, "milestones") ELSE <<>>

\* saveMilestones whose push never reaches the store.
SaveMilestones_NoPush(d, c, milestones) == d

\* saveMilestones: one push.
SaveMilestones(d, c, milestones) == Push(d, c, "milestones", milestones)

\* What the store holds for a campaign, read without the push of loadDonations.
Watermark(d, c) == IF d[c].lastDonationDate = {} THEN Null ELSE The(d[c].lastDonationDate)
StoredIds(d, c) == IF d[c].ids = {} THEN <<>> ELSE The(d[c].ids)
SeenIds(d, c) == {StoredIds(d, c)[k] : k \in 1..Len(StoredIds(d, c))}
Snapshot(d, c) == IF d[c].milestones = {} THEN <<>> ELSE The(d[c].milestones)

----------------------------------------------------------------------------
(* The token check *)

\* isTokenValid() without the test of the refresh result.
IsTokenValidResult_RefreshUnchecked(a, up) ==
    CASE a = "null" -> IF up THEN "true" ELSE "throws"
      [] a = "noauth" -> "false"
      [] a = "valid" -> "true"
      [] a = "expired" -> "undefined"

\* isTokenValid(): what the promise settles to.
IsTokenValidResult(a, up) ==
    CASE a = "null" -> IF up THEN "true" ELSE "throws"
      [] a = "noauth" -> "false"
      [] a = "valid" -> "true"
      [] a = "expired" -> IF up THEN "undefined" ELSE "false"

\* integrationManager.refreshToken stores the new credentials when it succeeds.
AuthAfterCheck(a, up) == IF a \in {"null", "expired"} /\ up THEN "valid" ELSE a

\* What the token endpoint answers: a status, or nothing (a network error).
Responses == {200, 204, 500, Null}

\* refreshToken() that saves whatever response axios hands back.
RefreshOutcome_StatusUnchecked(hostRefresh, linkAuth, c, response) ==
    IF hostRefresh
    THEN IF c # Null /\ response = 200
         THEN [outcome |-> "token", token |-> c + 1, cred |-> c + 1, saves |-> 0]
         ELSE [outcome |-> "throws", token |-> Null, cred |-> c, saves |-> 0]
    ELSE IF linkAuth /\ c # Null /\ response \in {200, 204}
         THEN [outcome |-> "token", token |-> c + 1, cred |-> c + 1, saves |-> 1]
         ELSE [outcome |-> "undefined", token |-> Null, cred |-> c, saves |-> 0]

\* refreshToken(integrationId), given whether the host has a refreshToken of
\* its own, whether the definition's linkType is "auth", the credentials c the
\* definition holds and what the token endpoint answers.  With the host's
\* refreshToken: the host persists and returns the new credentials, or
\* returns null, of which reading access_token throws.  Without: axios.post
\* throws for no response and for a status outside 2xx; only status 200 is
\* saved (saveIntegrationAuth) and returned; everything else returns undefined.
RefreshOutcome(hostRefresh, linkAuth, c, response) ==
    IF hostRefresh
    THEN IF c # Null /\ response = 200
         THEN [outcome |-> "token", token |-> c + 1, cred |-> c + 1, saves |-> 0]
         ELSE [outcome |-> "throws", token |-> Null, cred |-> c, saves |-> 0]
    ELSE IF linkAuth /\ c # Null /\ response = 200
         THEN [outcome |-> "token", token |-> c + 1, cred |-> c + 1, saves |-> 1]
         ELSE [outcome |-> "undefined", token |-> Null, cred |-> c, saves |-> 0]

\* isIntegrationConfigValid(): the campaign id is there and not empty.
IsIntegrationConfigValid(data) ==
    /\ "userSettings" \in data.present
    /\ "campaignSettings" \in data.present
    /\ "campaignId" \in data.present
    /\ data.campaignId # ""

\* The frontend queries: get-tiltify-rewards, -poll-options, -challenges.
QueryKinds == {"rewards", "pollOptions", "challenges"}

----------------------------------------------------------------------------
(* The poll service: one session per campaign, one timer per session *)

NoSession == [exists |-> FALSE, running |-> FALSE, intervalMs |-> 0, timers |-> 0, resumed |-> FALSE]

\* A connect() call: where it stands, what it was called with, whether it is
\* the reconnect of a settings update, and whether disconnect() was called
\* since it began.
IdleSlot == [pc |-> "idle", campaignId |-> "", pollInterval |-> 0, reconnect |-> FALSE,
             interrupted |-> FALSE]

\* The amounts of every campaign's milestones, and the amounts raised the
\* remote service goes through.
MilestoneAmounts == <<50, 100>>
MilestoneIds == 1..Len(MilestoneAmounts)
Amounts == <<40, 60, 110>>

\* No call of the kind was made yet.
NoCall == [op |-> "none"]

Init ==
    /\ connected = FALSE
    /\ timeout = Null
    /\ lastSignal = "none"
    /\ settings = DefaultSettings
    /\ auth = "valid"
    /\ networkUp = TRUE
    /\ conn = [i \in Slots |-> IdleSlot]
    /\ sessions = [c \in Campaigns |-> NoSession]
    /\ ticks = [c \in Campaigns |-> <<>>]
    /\ db = EmptyStore
    /\ remote = {}
    /\ now = 0
    /\ emitted = [d \in DonationIds |-> 0]
    /\ initialWatermark = [c \in Campaigns |-> Null]
    /\ signals = <<>>
    /\ raised = [c \in Campaigns |-> 1]
    /\ milestoneEvents = [c \in Campaigns |-> [m \in MilestoneIds |-> 0]]
    /\ cred = 0
    /\ refreshed = NoCall
    /\ query = NoCall
    /\ loaded = NoCall
    /\ tokenCheck = NoCall

\* start that never finds the session of an earlier start.
SessionExists_Never(c) == FALSE

\* start, step 1: a session already exists for the campaign.
SessionExists(c) == sessions[c].exists

\* tiltifyPollService.isStarted(campaignId)
IsStarted(c) == sessions[c].exists /\ sessions[c].running

\* start, step 1 (continued): the new session is registered before the
\* start suspends on loading the campaign's state.
ReserveSession(c, intervalMs) ==
    [sessions EXCEPT ![c] = [exists |-> TRUE, running |-> FALSE,
                             intervalMs |-> intervalMs, timers |-> sessions[c].timers,
                             resumed |-> FALSE]]

\* A timer that fires whether or not the previous tick has ended.
TickMayFire_Always(c) == TRUE

\* A tick may begin only when no tick of the campaign is in flight.
TickMayFire(c) == ticks[c] = <<>>

RemoteOf(c) == {r \in remote : r.campaignId = c}

ArrivesBefore(a, b) ==
    \/ a.completedAt < b.completedAt
    \/ (a.completedAt = b.completedAt /\ a.id < b.id)

RECURSIVE SortByArrival(_)
SortByArrival(S) ==
    IF S = {} THEN <<>>
    ELSE LET m == CHOOSE x \in S : \A y \in S \ {x} : ArrivesBefore(x, y)
         IN <<m>> \o SortByArrival(S \ {m})

\* The watermark set to each new donation's arrival time.
AdvanceWatermark_Latest(w, t) == t

\* The watermark moves forward only.
AdvanceWatermark(w, t) == IF t > w THEN t ELSE w

Includes(ids, id) == \E k \in 1..Len(ids) : ids[k] = id

\* Tick, step 2: each donation in arrival order is skipped when its id is
\* known, else recorded, the watermark advanced and the event emitted.
RECURSIVE ProcessDonations(_, _)
ProcessDonations(batch, st) ==
    IF batch = <<>> THEN st
    ELSE LET dn == Head(batch)
         IN IF Includes(st.ids, dn.id)
            THEN ProcessDonations(Tail(batch), st)
            ELSE ProcessDonations(Tail(batch),
                    [lastDonationDate |-> AdvanceWatermark(st.lastDonationDate, dn.completedAt),
                     ids |-> Append(st.ids, dn.id),
                     events |-> Append(st.events, dn.id)])

\* fetchMilestones: the campaign's milestones with the amount reached now.
FetchMilestones(c) ==
    [m \in MilestoneIds |->
        [id |-> m, amount |-> MilestoneAmounts[m], reachedAmount |-> Amounts[raised[c]]]]

\* The snapshot holds the milestone with its amount reached.
Reached(milestones, m) ==
    \E k \in 1..Len(milestones) :
        milestones[k].id = m /\ milestones[k].reachedAmount >= milestones[k].amount

\* Tick, step 3: the milestones reached now that the snapshot does not hold
\* as reached.
NewlyReached(snapshot, fetched) ==
    {m \in MilestoneIds : Reached(fetched, m) /\ ~Reached(snapshot, m)}

RemoveAt(s, k) == SubSeq(s, 1, k - 1) \o SubSeq(s, k + 1, Len(s))

----------------------------------------------------------------------------
(* The connection state machine *)

\* userSettings.integrationSettings.pollInterval * 1000; a missing
\* pollInterval reads as undefined, and undefined * 1000 is NaN.
PollInterval(data) == IF "pollInterval" \in data.present THEN data.pollInterval ELSE NaN
PollIntervalMs(data) ==
    IF PollInterval(data) = NaN THEN NaN ELSE PollInterval(data) * MsPerSecond

\* disconnect() was called while these connect() calls were under way.
Interrupted(k) ==
    [i \in Slots |-> IF k[i].pc = "idle" THEN k[i] ELSE [k[i] EXCEPT !.interrupted = TRUE]]

FreeSlot == CHOOSE i \in Slots : conn[i].pc = "idle" /\ \A j \in Slots : conn[j].pc = "idle" => i <= j

\* connect(integrationData), up to its await of tiltifyPollService.start.
\* isTokenValid() is called and its promise tested, never awaited: the
\* promise is truthy, so the branch that disconnects is never taken; the
\* call still refreshes the token when the stored one does not validate.
\* Without integrationSettings, reading pollInterval throws and connect()
\* rejects where it stands.  c0, s0 and k0 are the connected flag, the last
\* signal and the calls under way connect starts from; n0 holds the signals
\* the step emitted before it entered connect.
ConnectBody(data, c0, s0, n0, k0, viaUpdate) ==
    /\ auth' = AuthAfterCheck(auth, networkUp)
    /\ IF \/ "userSettings" \notin data.present
          \/ "campaignSettings" \notin data.present
          \/ "campaignId" \notin data.present
          \/ data.campaignId = ""
       THEN /\ connected' = FALSE
            /\ lastSignal' = "disconnected"
            /\ signals' = Append(n0, "disconnected")
            /\ conn' = k0
            /\ UNCHANGED sessions
       ELSE IF "integrationSettings" \notin data.present
       THEN /\ connected' = c0
            /\ lastSignal' = s0
            /\ signals' = n0
            /\ conn' = k0
            /\ UNCHANGED sessions
       ELSE /\ \E i \in Slots : conn[i].pc = "idle"
            /\ connected' = c0
            /\ lastSignal' = s0
            /\ signals' = IF n0 = <<>> THEN signals ELSE n0
            /\ conn' = [k0 EXCEPT ![FreeSlot] =
                          [pc |-> IF SessionExists(data.campaignId) THEN "resolved" ELSE "awaitStart",
                           campaignId |-> data.campaignId,
                           pollInterval |-> PollInterval(data),
                           reconnect |-> viaUpdate,
                           interrupted |-> FALSE]]
            /\ sessions' = IF SessionExists(data.campaignId) THEN sessions
                           ELSE ReserveSession(data.campaignId, PollIntervalMs(data))

\* The host connects the integration with the settings it holds.
Connect ==
    /\ ConnectBody(settings, connected, lastSignal, <<>>, conn, FALSE)
    /\ UNCHANGED <<timeout, settings, networkUp, ticks, db, remote, now, emitted,
                   initialWatermark, raised, milestoneEvents, callVars>>

\* The host connects while no other connect() call is under way.
ConnectAlone ==
    /\ \A i \in Slots : conn[i].pc = "idle"
    /\ ConnectBody(settings, connected, lastSignal, <<>>, conn, FALSE)
    /\ UNCHANGED <<timeout, settings, networkUp, ticks, db, remote, now, emitted,
                   initialWatermark, raised, milestoneEvents, callVars>>

\* disconnect(): clears this.timeout when set, and signals.
Disconnect ==
    /\ connected' = FALSE
    /\ lastSignal' = "disconnected"
    /\ signals' = <<"disconnected">>
    /\ timeout' = Null
    /\ conn' = Interrupted(conn)
    /\ UNCHANGED <<settings, auth, networkUp, sessions, ticks, db, remote, now,
                   emitted, initialWatermark, raised, milestoneEvents, callVars>>

\* onUserSettingsUpdate(integrationData): disconnect when connected, then
\* connect, which is not awaited.
OnUserSettingsUpdate(data) ==
    /\ data # settings
    /\ settings' = data
    /\ IF connected
       THEN ConnectBody(data, FALSE, "disconnected", <<"disconnected">>, Interrupted(conn), TRUE)
       ELSE ConnectBody(data, connected, lastSignal, <<>>, conn, FALSE)
    /\ timeout' = Null
    /\ UNCHANGED <<networkUp, ticks, db, remote, now, emitted, initialWatermark,
                   raised, milestoneEvents, callVars>>

\* start, steps 2 and 3, of the start call connect slot i awaits: load the
\* state, on a first run set the watermark to now and persist, schedule the
\* timer.  A start that fails drops the session.
StartComplete(i) ==
    /\ conn[i].pc = "awaitStart"
    /\ LET c == conn[i].campaignId
           ld == LoadDonations(db, c)
       IN /\ sessions[c].timers < MaxTimers
          /\ \E ok \in BOOLEAN :
               IF ok
               THEN /\ db' = IF ld.lastDonationDate = Null
                             THEN SaveDonations(ld.db, c, now, ld.ids)
                             ELSE ld.db
                    /\ initialWatermark' =
                          IF ld.lastDonationDate = Null /\ initialWatermark[c] = Null
                          THEN [initialWatermark EXCEPT ![c] = now]
                          ELSE initialWatermark
                    /\ sessions' = [sessions EXCEPT ![c] =
                                      [@ EXCEPT !.exists = TRUE, !.running = TRUE,
                                                !.timers = @ + 1,
                                                !.resumed = (ld.lastDonationDate # Null)]]
               ELSE /\ sessions' = [sessions EXCEPT ![c] = NoSession]
                    /\ UNCHANGED <<db, initialWatermark>>
    /\ conn' = [conn EXCEPT ![i].pc = "resolved"]
    /\ UNCHANGED <<connected, timeout, lastSignal, settings, auth, networkUp, ticks,
                   remote, now, emitted, signals, raised, milestoneEvents, callVars>>

\* connect(), after the await, without the isStarted test.
ConnectResume_StartedUnchecked(i) ==
    /\ conn[i].pc = "resolved"
    /\ connected' = TRUE /\ lastSignal' = "connected" /\ signals' = <<"connected">>
    /\ conn' = [conn EXCEPT ![i] = IdleSlot]
    /\ UNCHANGED <<timeout, settings, auth, networkUp, sessions, ticks, db, remote, now,
                   emitted, initialWatermark, raised, milestoneEvents, callVars>>

\* connect(), after the await: connected when the poll service reports the
\* campaign started, else disconnected.
ConnectResume(i) ==
    /\ conn[i].pc = "resolved"
    /\ IF IsStarted(conn[i].campaignId)
       THEN connected' = TRUE /\ lastSignal' = "connected" /\ signals' = <<"connected">>
       ELSE connected' = FALSE /\ lastSignal' = "disconnected" /\ signals' = <<"disconnected">>
    /\ conn' = [conn EXCEPT ![i] = IdleSlot]
    /\ UNCHANGED <<timeout, settings, auth, networkUp, sessions, ticks, db, remote, now,
                   emitted, initialWatermark, raised, milestoneEvents, callVars>>

\* stop(campaignId) that also abandons the ticks in flight.
PollStop_AbortsTicks(c) ==
    /\ IsStarted(c)
    /\ sessions' = [sessions EXCEPT ![c] = NoSession]
    /\ ticks' = [ticks EXCEPT ![c] = <<>>]
    /\ UNCHANGED <<connected, timeout, lastSignal, settings, auth, networkUp, conn,
                   db, remote, now, emitted, initialWatermark, signals, raised,
                   milestoneEvents, callVars>>

\* stop(campaignId): cancel the timer, drop the session; the store is left alone.
PollStop(c) ==
    /\ IsStarted(c)
    /\ sessions' = [sessions EXCEPT ![c] = NoSession]
    /\ UNCHANGED <<connected, timeout, lastSignal, settings, auth, networkUp, conn, ticks,
                   db, remote, now, emitted, initialWatermark, signals, raised,
                   milestoneEvents, callVars>>

----------------------------------------------------------------------------
(* The tick *)

\* The timer fires: token check (with its refresh), then the state is read
\* and the fetch is issued.  A tick whose token check fails is skipped.
TickFire(c) ==
    /\ IsStarted(c)
    /\ sessions[c].timers > 0
    /\ TickMayFire(c)
    /\ Len(ticks[c]) < MaxInFlight
    /\ \A d \in DonationIds : emitted[d] < MaxEmit
    /\ \A m \in MilestoneIds : milestoneEvents[c][m] < MaxEmit
    /\ auth' = AuthAfterCheck(auth, networkUp)
    /\ IF IsTokenValidResult(auth, networkUp) \in {"false", "throws"}
       THEN UNCHANGED <<ticks, db>>
       ELSE LET ld == LoadDonations(db, c)
            IN /\ ticks' = [ticks EXCEPT ![c] =
                              Append(@, [lastDonationDate |-> ld.lastDonationDate, ids |-> ld.ids])]
               /\ db' = ld.db
    /\ UNCHANGED <<connected, timeout, lastSignal, settings, networkUp, conn, sessions,
                   remote, now, emitted, initialWatermark, signals, raised,
                   milestoneEvents, callVars>>

\* The fetches of tick k of campaign c return: on failure the tick ends; else
\* the batch is processed, the milestones are compared with the snapshot, the
\* events emitted and the state persisted.
TickComplete(c, k) ==
    /\ k \in 1..Len(ticks[c])
    /\ ticks' = [ticks EXCEPT ![c] = RemoveAt(@, k)]
    /\ IF ~networkUp
       THEN UNCHANGED <<db, emitted, milestoneEvents>>
       ELSE \E batch \in SUBSET RemoteOf(c) :
              LET res == ProcessDonations(SortByArrival(batch),
                            [lastDonationDate |-> ticks[c][k].lastDonationDate,
                             ids |-> ticks[c][k].ids, events |-> <<>>])
                  reached == NewlyReached(LoadMilestones(db, c), FetchMilestones(c))
              IN /\ db' = SaveMilestones(SaveDonations(db, c, res.lastDonationDate, res.ids),
                                         c, FetchMilestones(c))
                 /\ emitted' = [d \in DonationIds |->
                                  emitted[d] + IF Includes(res.events, d) THEN 1 ELSE 0]
                 /\ milestoneEvents' =
                       [milestoneEvents EXCEPT ![c] =
                          [m \in MilestoneIds |-> @[m] + IF m \in reached THEN 1 ELSE 0]]
    /\ UNCHANGED <<connected, timeout, lastSignal, settings, auth, networkUp, conn,
                   sessions, remote, now, initialWatermark, signals, raised, callVars>>

----------------------------------------------------------------------------
(* The environment *)

\* A donation reaches the remote service; its timestamp may lie in the past.
\* The record notes whether the campaign's polling had ever started by then.
Donate(c, t) ==
    /\ Cardinality(remote) < NumDonations
    /\ t <= now
    /\ remote' = remote \cup {[id |-> Cardinality(remote) + 1, campaignId |-> c,
                                completedAt |-> t,
                                preexisting |-> (initialWatermark[c] = Null)]}
    /\ UNCHANGED <<connected, timeout, lastSignal, settings, auth, networkUp, conn,
                   sessions, ticks, db, now, emitted, initialWatermark, signals, raised,
                   milestoneEvents, callVars>>

AdvanceClock ==
    /\ now < MaxTime
    /\ now' = now + 1
    /\ UNCHANGED <<connected, timeout, lastSignal, settings, auth, networkUp, conn,
                   sessions, ticks, db, remote, emitted, initialWatermark, signals, raised,
                   milestoneEvents, callVars>>

\* The amount the remote service reports raised for a campaign grows.
Raise(c) ==
    /\ raised[c] < Len(Amounts)
    /\ raised' = [raised EXCEPT ![c] = @ + 1]
    /\ UNCHANGED <<connected, timeout, lastSignal, settings, auth, networkUp, conn,
                   sessions, ticks, db, remote, now, emitted, initialWatermark, signals,
                   milestoneEvents, callVars>>

TokenExpire ==
    /\ auth = "valid"
    /\ auth' = "expired"
    /\ UNCHANGED <<connected, timeout, lastSignal, settings, networkUp, conn, sessions,
                   ticks, db, remote, now, emitted, initialWatermark, signals, raised,
                   milestoneEvents, callVars>>

NetworkToggle ==
    /\ networkUp' = ~networkUp
    /\ UNCHANGED <<connected, timeout, lastSignal, settings, auth, conn, sessions, ticks,
                   db, remote, now, emitted, initialWatermark, signals, raised,
                   milestoneEvents, callVars>>

\* link(): the host stores the token it received.
Link ==
    /\ auth \in {"null", "noauth"}
    /\ auth' = "valid"
    /\ UNCHANGED <<connected, timeout, lastSignal, settings, networkUp, conn, sessions,
                   ticks, db, remote, now, emitted, initialWatermark, signals, raised,
                   milestoneEvents, callVars>>

\* unlink(): the host drops the stored token.
Unlink(a) ==
    /\ auth \in {"valid", "expired"}
    /\ a \in {"null", "noauth"}
    /\ auth' = a
    /\ UNCHANGED <<connected, timeout, lastSignal, settings, networkUp, conn, sessions,
                   ticks, db, remote, now, emitted, initialWatermark, signals, raised,
                   milestoneEvents, callVars>>

\* The campaign ids the store's methods are called with: one is a path below
\* the other.
NestingCampaigns == {"c1", "c1/ids"}

\* The id lists saved: the donations seen, oldest first.
IdLists == {[k \in 1..n |-> k] : n \in 0..NumDonations}

\* The milestone lists saved: the milestones at each amount raised.
MilestoneLists ==
    {[m \in MilestoneIds |->
        [id |-> m, amount |-> MilestoneAmounts[m], reachedAmount |-> Amounts[a]]] :
      a \in 1..Len(Amounts)}

\* How far a saveDonations gets before the process dies: the pushes done.
PushesDone == {{}, {"ids"}, {"ids", "lastDonationDate"}}

\* loadDonations(campaignId) is called and returns.
StoreLoadDonations(c) ==
    /\ LET r == LoadDonations(db, c)
       IN /\ db' = r.db
          /\ loaded' = [op |-> "loadDonations", campaignId |-> c,
                        lastDonationDate |-> r.lastDonationDate, ids |-> r.ids]
    /\ UNCHANGED <<connected, timeout, lastSignal, settings, auth, networkUp, conn,
                   sessions, ticks, remote, now, emitted, initialWatermark, signals,
                   raised, milestoneEvents, cred, refreshed, query, tokenCheck>>

\* saveDonations(campaignId, {lastDonationDate, ids}) is called; the process
\* lives through the pushes in `done` (each push saves the file).
StoreSaveDonations(c, lastDonationDate, ids, done) ==
    /\ db' = SaveDonationsPushes(db, c, lastDonationDate, ids, done)
    /\ loaded' = NoCall
    /\ UNCHANGED <<connected, timeout, lastSignal, settings, auth, networkUp, conn,
                   sessions, ticks, remote, now, emitted, initialWatermark, signals,
                   raised, milestoneEvents, cred, refreshed, query, tokenCheck>>

\* loadMilestones(campaignId) is called and returns.
StoreLoadMilestones(c) ==
    /\ loaded' = [op |-> "loadMilestones", campaignId |-> c,
                  milestones |-> LoadMilestones(db, c)]
    /\ UNCHANGED <<connected, timeout, lastSignal, settings, auth, networkUp, conn,
                   sessions, ticks, db, remote, now, emitted, initialWatermark, signals,
                   raised, milestoneEvents, cred, refreshed, query, tokenCheck>>

\* saveMilestones(campaignId, milestones) is called.
StoreSaveMilestones(c, milestones) ==
    /\ db' = SaveMilestones(db, c, milestones)
    /\ loaded' = NoCall
    /\ UNCHANGED <<connected, timeout, lastSignal, settings, auth, networkUp, conn,
                   sessions, ticks, remote, now, emitted, initialWatermark, signals,
                   raised, milestoneEvents, cred, refreshed, query, tokenCheck>>

\* refreshToken(integrationId) is called.  A request is sent only without
\* the host's refreshToken, with linkType "auth" and credentials held.
RefreshToken(hostRefresh, linkAuth, response) ==
    /\ cred # Null => cred < MaxRefresh
    /\ ~networkUp => response = Null
    /\ LET r == RefreshOutcome(hostRefresh, linkAuth, cred, response)
       IN /\ cred' = r.cred
          /\ auth' = IF r.outcome = "token" THEN "valid" ELSE auth
          /\ refreshed' = [op |-> "refreshToken", hostRefresh |-> hostRefresh,
                           linkAuth |-> linkAuth, response |-> response,
                           before |-> cred, outcome |-> r.outcome, token |-> r.token,
                           saves |-> r.saves]
    /\ UNCHANGED <<connected, timeout, lastSignal, settings, networkUp, conn, sessions,
                   ticks, db, remote, now, emitted, initialWatermark, signals, raised,
                   milestoneEvents, query, loaded, tokenCheck>>

\* isTokenValid() is called by itself.  A refresh that succeeds leaves new
\* credentials with the host.
IsTokenValid ==
    /\ cred # Null => cred < MaxRefresh
    /\ tokenCheck' = [op |-> "isTokenValid", result |-> IsTokenValidResult(auth, networkUp)]
    /\ auth' = AuthAfterCheck(auth, networkUp)
    /\ cred' = IF AuthAfterCheck(auth, networkUp) = auth THEN cred
               ELSE IF cred = Null THEN 0 ELSE cred + 1
    /\ UNCHANGED <<connected, timeout, lastSignal, settings, networkUp, conn, sessions,
                   ticks, db, remote, now, emitted, initialWatermark, signals, raised,
                   milestoneEvents, refreshed, query, loaded>>

\* A frontend query arrives: a configuration that is not valid throws; auth
\* data that is null or holds no auth returns undefined; else the fetch is
\* issued with the stored access token and the campaign id.
Query(kind) ==
    /\ query' =
         IF ~IsIntegrationConfigValid(settings)
         THEN [op |-> kind, outcome |-> "throws", request |-> FALSE]
         ELSE IF auth \in {"null", "noauth"}
         THEN [op |-> kind, outcome |-> "undefined", request |-> FALSE]
         ELSE [op |-> kind, outcome |-> IF networkUp /\ auth = "valid" THEN "fetched" ELSE "fetchFailed",
               request |-> TRUE]
    /\ UNCHANGED <<connected, timeout, lastSignal, settings, auth, networkUp, conn,
                   sessions, ticks, db, remote, now, emitted, initialWatermark, signals,
                   raised, milestoneEvents, cred, refreshed, loaded, tokenCheck>>

----------------------------------------------------------------------------
(* Spec: the connection state machine over the sessions of the poll service,
   any interleaving of the host's calls (connect, disconnect, settings updates,
   link, unlink); the ticks of the sessions are left to SpecPoll.
   SpecPoll: the polling engine with donations arriving and the
   clock advancing, the host's connect calls one at a time under the default
   settings, sessions stopped and restarted; disconnect(), which no step of
   the engine reads or is changed by, is left to Spec. *)

Next ==
    \/ Connect
    \/ Disconnect
    \/ \E data \in SettingsSet : OnUserSettingsUpdate(data)
    \/ \E i \in Slots : StartComplete(i)
    \/ \E i \in Slots : ConnectResume(i)
    \/ \E c \in Campaigns : PollStop(c)
    \/ TokenExpire
    \/ NetworkToggle
    \/ Link
    \/ \E a \in AuthStates : Unlink(a)

Spec == Init /\ [][Next]_vars

NextPoll ==
    \/ ConnectAlone
    \/ \E i \in Slots : StartComplete(i)
    \/ \E i \in Slots : ConnectResume(i)
    \/ \E c \in Campaigns : PollStop(c)
    \/ \E c \in Campaigns : TickFire(c)
    \/ \E c \in Campaigns, k \in 1..MaxInFlight : TickComplete(c, k)
    \/ \E c \in Campaigns, t \in Times : Donate(c, t)
    \/ AdvanceClock
    \/ TokenExpire
    \/ NetworkToggle

SpecPoll == Init /\ [][NextPoll]_vars

(* SpecMilestone: the polling engine while the amount raised grows, no
   donations. *)
NextMilestone ==
    \/ ConnectAlone
    \/ \E i \in Slots : StartComplete(i)
    \/ \E i \in Slots : ConnectResume(i)
    \/ \E c \in Campaigns : PollStop(c)
    \/ \E c \in Campaigns : TickFire(c)
    \/ \E c \in Campaigns, k \in 1..MaxInFlight : TickComplete(c, k)
    \/ \E c \in Campaigns : Raise(c)
    \/ NetworkToggle

SpecMilestone == Init /\ [][NextMilestone]_vars

(* SpecConfig: the connection state machine under settings of every shape,
   keys missing included.  Nothing in the integration calls the poll
   service's stop, so here a session ends only when its start fails. *)
NextConfig ==
    \/ Connect
    \/ Disconnect
    \/ \E data \in ConfigSet : OnUserSettingsUpdate(data)
    \/ \E i \in Slots : StartComplete(i)
    \/ \E i \in Slots : ConnectResume(i)

SpecConfig == Init /\ [][NextConfig]_vars

(* SpecStore: the four store methods, called in any order for campaign ids
   of which one is a path below the other. *)
NextStore ==
    \/ \E c \in NestingCampaigns : StoreLoadDonations(c)
    \/ \E c \in NestingCampaigns, lastDonationDate \in Times, ids \in IdLists,
          done \in PushesDone :
          StoreSaveDonations(c, lastDonationDate, ids, done)
    \/ \E c \in NestingCampaigns : StoreLoadMilestones(c)
    \/ \E c \in NestingCampaigns, milestones \in MilestoneLists :
          StoreSaveMilestones(c, milestones)

SpecStore == Init /\ [][NextStore]_vars

(* SpecHost: the calls that go to the host and to the remote service outside
   the polling - refreshToken(), isTokenValid() and the frontend queries - under whatever
   settings and credentials the host holds. *)
InitHost ==
    /\ connected = FALSE
    /\ timeout = Null
    /\ lastSignal = "none"
    /\ settings \in ConfigSet
    /\ auth \in AuthStates
    /\ cred = IF auth \in {"null", "noauth"} THEN Null ELSE 0
    /\ networkUp = TRUE
    /\ conn = [i \in Slots |-> IdleSlot]
    /\ sessions = [c \in Campaigns |-> NoSession]
    /\ ticks = [c \in Campaigns |-> <<>>]
    /\ db = EmptyStore
    /\ remote = {}
    /\ now = 0
    /\ emitted = [d \in DonationIds |-> 0]
    /\ initialWatermark = [c \in Campaigns |-> Null]
    /\ signals = <<>>
    /\ raised = [c \in Campaigns |-> 1]
    /\ milestoneEvents = [c \in Campaigns |-> [m \in MilestoneIds |-> 0]]
    /\ refreshed = NoCall
    /\ query = NoCall
    /\ loaded = NoCall
    /\ tokenCheck = NoCall

NextHost ==
    \/ \E hostRefresh, linkAuth \in BOOLEAN, response \in Responses :
          RefreshToken(hostRefresh, linkAuth, response)
    \/ \E kind \in QueryKinds : Query(kind)
    \/ IsTokenValid
    \/ TokenExpire
    \/ NetworkToggle

SpecHost == InitHost /\ [][NextHost]_vars

----------------------------------------------------------------------------
(* Steps, as seen from the states before and after *)

\* The stored token is unusable: it is malformed, or it is missing or does
\* not validate while the refresh fails.
TokenUnusable == auth = "noauth" \/ (auth \in {"null", "expired"} /\ ~networkUp)

\* The settings hold a configuration error: user settings or campaign
\* settings absent, campaign id missing or empty, or poll interval missing.
ConfigError(data) ==
    \/ "userSettings" \notin data.present
    \/ "campaignSettings" \notin data.present
    \/ "campaignId" \notin data.present
    \/ data.campaignId = ""
    \/ "integrationSettings" \notin data.present
    \/ "pollInterval" \notin data.present

\* A start of campaign c completed with the timer scheduled.
StartedNow(c) == ~sessions[c].running /\ sessions'[c].running

\* The session of campaign c was stopped.
StoppedNow(c) == sessions[c].running /\ ~sessions'[c].exists

\* A tick of campaign c ended (its fetch returned or failed).
TickEndedNow(c) == Len(ticks'[c]) < Len(ticks[c])

\* A tick of campaign c went in flight.
TickBeganNow(c) == Len(ticks'[c]) > Len(ticks[c])

CampaignOf(d) == The({r \in remote : r.id = d}).campaignId
InRemote(d) == \E r \in remote : r.id = d

----------------------------------------------------------------------------
(* C1: each donation identifier causes exactly one DonationReceived event over
   the lifetime of the store, also when the fetcher returns it again later and
   across stop/start restarts: no id is emitted twice, and the ids emitted are
   exactly the ids the store records as seen. *)
C1_NoDuplicateDonation ==
    \A d \in DonationIds :
        /\ emitted[d] <= 1
        /\ emitted[d] = 1 <=> \E c \in Campaigns : d \in SeenIds(db, c)

\* A tick is in flight on a restarted session while a donation of its campaign,
\* already emitted, is still held by the remote service.
C1_Witness ==
    \E r \in remote :
        /\ emitted[r.id] = 1
        /\ sessions[r.campaignId].resumed
        /\ ticks[r.campaignId] # <<>>

----------------------------------------------------------------------------
(* C2: disconnect() stops the polling of the configured campaign: after a
   disconnect() that follows a successful connect(), the campaign has no poll
   session (no further tick is scheduled) and connected is false. *)
C2_DisconnectStopsPolling ==
    [][(Disconnect /\ connected /\ settings.campaignId \in Campaigns)
         => /\ ~connected'
            /\ ~sessions'[settings.campaignId].exists
            /\ sessions'[settings.campaignId].timers = 0]_vars

(* C3: connect() requires a valid token: when the stored token is unusable
   and the refresh fails, connect() signals disconnected, leaves connected
   false and starts no poll session. *)
C3_ConnectRequiresValidToken ==
    [][(Connect /\ TokenUnusable)
         => /\ ~connected'
            /\ lastSignal' = "disconnected"
            /\ sessions' = sessions
            /\ conn' = conn]_vars

(* C4: a settings update while connected takes effect: once its reconnect
   completes as connected, the only poll session is the one of the new
   campaign, running at the new interval. *)
C4_SettingsUpdateTakesEffect ==
    [][\A i \in Slots :
         (ConnectResume(i) /\ conn[i].reconnect /\ connected')
           => \A c \in Campaigns :
                sessions'[c].exists
                  => /\ c = conn[i].campaignId
                     /\ sessions'[c].intervalMs = conn[i].pollInterval * MsPerSecond]_vars

(* C5: at most one poll session, with one timer, per campaign: a start on a
   campaign that has a session starts nothing, and two starts of one campaign
   issued before either completes leave one session and one timer. *)
C5_OneSessionPerCampaign ==
    \A c \in Campaigns :
        /\ sessions[c].timers <= 1
        /\ Cardinality({i \in Slots : conn[i].pc = "awaitStart" /\ conn[i].campaignId = c}) <= 1
        /\ sessions[c].running <=> sessions[c].timers = 1
        /\ sessions[c].running => sessions[c].exists
        /\ (\E i \in Slots : conn[i].pc = "awaitStart" /\ conn[i].campaignId = c)
             => sessions[c].exists /\ ~sessions[c].running

\* Two connect() calls of one campaign are under way, the second one's start
\* having found the session of the first.
C5_Witness ==
    \E i, j \in Slots :
        /\ conn[i].pc = "awaitStart"
        /\ conn[j].pc = "resolved"
        /\ conn[i].campaignId = conn[j].campaignId

----------------------------------------------------------------------------
(* C6: at most one tick is in flight per campaign, and the ticks of a campaign
   never interleave their read-modify-write: while a tick is in flight the
   store still holds the state that tick has read. *)
C6_OneTickInFlight ==
    \A c \in Campaigns :
        /\ Len(ticks[c]) <= 1
        /\ \A k \in 1..Len(ticks[c]) :
              /\ ticks[c][k].ids = StoredIds(db, c)
              /\ ticks[c][k].lastDonationDate = Watermark(db, c)

\* The timer of a running session is due again while a tick of the campaign
\* is suspended on its fetch.
C6_Witness ==
    \E c \in Campaigns :
        /\ IsStarted(c)
        /\ sessions[c].timers = 1
        /\ Len(ticks[c]) = 1
        /\ RemoteOf(c) # {}

(* C7: the watermark never moves backward: every step leaves the stored
   lastDonationDate of every campaign at or above its value before, whatever
   batch the fetcher returns. *)
C7_WatermarkMonotonic ==
    [][\A c \in Campaigns : Watermark(db', c) >= Watermark(db, c)]_vars

\* A donation that arrived before the watermark has been emitted.
C7_Witness ==
    \E r \in remote :
        /\ emitted[r.id] = 1
        /\ r.completedAt < Watermark(db, r.campaignId)

(* C8, as claimed: no event is ever emitted for a donation the remote service
   held before the campaign's first start; only donations that reach it after
   the initial watermark was set are emitted. *)
C8_OnlyLaterDonationsEmitted ==
    \A r \in remote :
        emitted[r.id] > 0
          => /\ initialWatermark[r.campaignId] # Null
             /\ ~r.preexisting

(* C8, amended: a start on an empty store sets the watermark to now, persists
   it and emits nothing; the watermark stays at or above that initial value;
   an event is emitted only by a tick of a started campaign, for a donation
   the remote service holds whose id the store had not recorded, and that id
   is recorded by the same step - whether or not the donation was there
   before the first start. *)
C8_FirstRunSetsWatermark ==
    /\ [][\A c \in Campaigns :
            StartedNow(c)
              => /\ emitted' = emitted
                 /\ Watermark(db, c) = Null => Watermark(db', c) = now]_vars
    /\ [](\A c \in Campaigns :
            /\ IsStarted(c) => Watermark(db, c) # Null
            /\ initialWatermark[c] # Null => Watermark(db, c) >= initialWatermark[c])
    /\ [][\A d \in DonationIds :
            emitted'[d] > emitted[d]
              => /\ InRemote(d)
                 /\ d \notin SeenIds(db, CampaignOf(d))
                 /\ d \in SeenIds(db', CampaignOf(d))
                 /\ initialWatermark[CampaignOf(d)] # Null]_vars

\* A session on its first run holds the initial watermark while the remote
\* service holds a donation that was there before the start, and a tick has
\* emitted that donation.
C8_Witness ==
    \E r \in remote :
        /\ IsStarted(r.campaignId)
        /\ ~sessions[r.campaignId].resumed
        /\ r.preexisting
        /\ r.completedAt <= initialWatermark[r.campaignId]
        /\ Watermark(db, r.campaignId) = initialWatermark[r.campaignId]
        /\ emitted[r.id] = 1

(* C9: stop leaves the store untouched; a start on a store that holds a
   watermark changes neither the watermark nor the seen ids and emits nothing;
   a donation the store records as seen is never emitted again. *)
C9_IdempotentRestart ==
    /\ [][\A c \in Campaigns : StoppedNow(c) => db' = db /\ emitted' = emitted]_vars
    /\ [][\A c \in Campaigns :
            (StartedNow(c) /\ Watermark(db, c) # Null)
              => /\ Watermark(db', c) = Watermark(db, c)
                 /\ StoredIds(db', c) = StoredIds(db, c)
                 /\ sessions'[c].resumed
                 /\ emitted' = emitted]_vars
    /\ [][\A c \in Campaigns : \A d \in SeenIds(db, c) :
            emitted'[d] = emitted[d] /\ d \in SeenIds(db', c)]_vars

\* A restarted session has completed a tick: everything the remote service
\* holds for the campaign is recorded and was emitted once.
C9_Witness ==
    \E c \in Campaigns :
        /\ IsStarted(c)
        /\ sessions[c].resumed
        /\ ticks[c] = <<>>
        /\ Cardinality(RemoteOf(c)) = NumDonations
        /\ \A r \in RemoteOf(c) : r.id \in SeenIds(db, c) /\ emitted[r.id] = 1

(* C10: a failed tick is contained: with the token unusable no tick goes in
   flight; a tick whose fetch fails changes neither the store nor the events;
   no tick step touches the sessions, and when a tick ends the campaign's next
   tick may fire; the store and the events change only by a tick that ends
   while the network is up, or by a start. *)
C10_FailedTickContained ==
    /\ [][\A c \in Campaigns : TokenUnusable => ~TickBeganNow(c)]_vars
    /\ [][\A c \in Campaigns :
            (TickEndedNow(c) /\ ~networkUp)
              => db' = db /\ emitted' = emitted]_vars
    /\ [][\A c \in Campaigns :
            (TickEndedNow(c) \/ TickBeganNow(c)) => sessions' = sessions]_vars
    /\ [][\A c \in Campaigns : TickEndedNow(c) => ticks'[c] = <<>>]_vars
    /\ [][emitted' # emitted => \E c \in Campaigns : TickEndedNow(c) /\ networkUp]_vars

\* A started session whose tick has just been skipped or is about to fail:
\* the token is expired, the network is down, and a donation waits unseen.
C10_Witness ==
    \E r \in remote :
        /\ IsStarted(r.campaignId)
        /\ ~networkUp
        /\ auth = "expired"
        /\ r.id \notin SeenIds(db, r.campaignId)
        /\ \E d \in DonationIds : emitted[d] = 1

----------------------------------------------------------------------------
(* C11: on each tick a MilestoneReached event is emitted exactly for the
   milestones whose reachedAmount has crossed their amount since the persisted
   snapshot; a tick that meets the reachedAmount of the snapshot emits nothing;
   every tick whose fetch returns leaves the snapshot at what it fetched,
   whether or not a milestone was crossed. *)
C11_MilestoneCrossing ==
    /\ [][\A c \in Campaigns :
            (TickEndedNow(c) /\ networkUp)
              => /\ \A m \in MilestoneIds :
                      milestoneEvents'[c][m] - milestoneEvents[c][m] =
                        IF /\ Amounts[raised[c]] >= MilestoneAmounts[m]
                           /\ \A k \in 1..Len(Snapshot(db, c)) :
                                Snapshot(db, c)[k].id = m
                                  => Snapshot(db, c)[k].reachedAmount < MilestoneAmounts[m]
                        THEN 1 ELSE 0
                 /\ Len(Snapshot(db', c)) = Len(MilestoneAmounts)
                 /\ \A k \in 1..Len(Snapshot(db', c)) :
                      /\ Snapshot(db', c)[k].amount = MilestoneAmounts[k]
                      /\ Snapshot(db', c)[k].reachedAmount = Amounts[raised[c]]]_vars
    /\ [][\A c \in Campaigns :
            (/\ TickEndedNow(c)
             /\ Snapshot(db, c) # <<>>
             /\ \A k \in 1..Len(Snapshot(db, c)) :
                  Snapshot(db, c)[k].reachedAmount = Amounts[raised[c]])
              => milestoneEvents' = milestoneEvents]_vars
    /\ [][milestoneEvents' # milestoneEvents
            => \E c \in Campaigns : TickEndedNow(c) /\ networkUp]_vars
    /\ [](\A c \in Campaigns : \A m \in MilestoneIds : milestoneEvents[c][m] <= 1)

\* A snapshot taken at 40 was followed by a tick that met 60: one event for
\* the milestone of 50, none for the milestone of 100, the snapshot at 60,
\* and the session still polling.
C11_Witness ==
    \E c \in Campaigns :
        /\ IsStarted(c)
        /\ ticks[c] = <<>>
        /\ Amounts[raised[c]] = 60
        /\ Snapshot(db, c) # <<>>
        /\ \A k \in 1..Len(Snapshot(db, c)) : Snapshot(db, c)[k].reachedAmount = 60
        /\ milestoneEvents[c][1] = 1
        /\ milestoneEvents[c][2] = 0

----------------------------------------------------------------------------
(* C12: connect() with a configuration error (user settings or campaign
   settings absent, campaign id missing or empty, or poll interval missing)
   ends in the disconnected state: it emits `disconnected`, sets connected to
   false, starts no poll session and leaves no call under way to retry. *)
C12_ConfigErrorDisconnects ==
    /\ [][(Connect /\ ConfigError(settings) /\ conn' = conn)
            => /\ ~connected'
               /\ lastSignal' = "disconnected"
               /\ signals' = <<"disconnected">>
               /\ sessions' = sessions]_vars
    /\ [][\A i \in Slots :
            (ConnectResume(i) /\ conn[i].pollInterval = NaN)
              => /\ ~connected'
                 /\ lastSignal' = "disconnected"]_vars

----------------------------------------------------------------------------
(* C13: token refresh is all-or-nothing: when the token endpoint answers 200
   to the refresh, the new credentials are persisted through the host and the
   new access token is returned; on a network error or any other response no
   token is returned, the stored credentials stay as they were and
   saveIntegrationAuth is not called; the stored credentials change only with
   a token returned. *)
C13_RefreshAllOrNothing ==
    [][\A hostRefresh, linkAuth \in BOOLEAN, response \in Responses :
         RefreshToken(hostRefresh, linkAuth, response)
           => /\ (cred # Null /\ response = 200 /\ (hostRefresh \/ linkAuth))
                   => /\ refreshed'.outcome = "token"
                      /\ cred' \notin {Null, cred}
                      /\ refreshed'.token = cred'
              /\ response # 200
                   => /\ refreshed'.outcome \in {"undefined", "throws"}
                      /\ cred' = cred
                      /\ refreshed'.saves = 0
              /\ refreshed'.outcome = "token" <=> cred' # cred
              /\ refreshed'.saves > 0 => refreshed'.outcome = "token"]_vars

\* A refresh has persisted new credentials and a later one has met a response
\* other than 200 and left them alone.
C13_Witness ==
    /\ refreshed # NoCall
    /\ ~refreshed.hostRefresh
    /\ refreshed.response = 204
    /\ refreshed.before > 0
    /\ cred = refreshed.before

----------------------------------------------------------------------------
(* C16: an on-demand query issues its remote fetch only when a campaign id
   that is not empty is configured and an access token is stored; otherwise
   it fails with a configuration error and sends no request - it never ends
   without a result and without an error. *)
C16_QueryNeedsConfigAndToken ==
    [][\A kind \in QueryKinds :
         Query(kind)
           => LET ok == /\ IsIntegrationConfigValid(settings)
                        /\ auth \in {"valid", "expired"}
              IN /\ query'.request <=> ok
                 /\ ~ok => query'.outcome = "throws"]_vars

----------------------------------------------------------------------------
(* C14: saving the sync state is atomic: whatever happens during a
   saveDonations, the store afterwards holds either both the ids and the
   lastDonationDate of the save or the campaign's state as it was before. *)
C14_SaveIsAtomic ==
    [][\A c \in NestingCampaigns, lastDonationDate \in Times, ids \in IdLists,
          done \in PushesDone :
         StoreSaveDonations(c, lastDonationDate, ids, done)
           => \/ /\ db'[c].ids = {ids}
                 /\ db'[c].lastDonationDate = {lastDonationDate}
              \/ db'[c] = db[c]]_vars

----------------------------------------------------------------------------
(* C15: a load returns, for each key of the campaign, the value last saved
   for it, and the default for a key nothing was saved for: a null
   lastDonationDate, no ids, no milestones. *)
C15_LoadDefaultsOrSaved ==
    [][\A c \in NestingCampaigns :
         /\ StoreLoadDonations(c)
              => /\ db[c].lastDonationDate = {} => loaded'.lastDonationDate = Null
                 /\ db[c].lastDonationDate # {}
                      => loaded'.lastDonationDate = The(db[c].lastDonationDate)
                 /\ db[c].ids = {} => loaded'.ids = <<>>
                 /\ db[c].ids # {} => loaded'.ids = The(db[c].ids)
         /\ StoreLoadMilestones(c)
              => /\ db[c].milestones = {} => loaded'.milestones = <<>>
                 /\ db[c].milestones # {} => loaded'.milestones = The(db[c].milestones)]_vars

----------------------------------------------------------------------------
(* C18: a load or a save for one campaign leaves what is stored for every
   other campaign - milestones, ids, lastDonationDate - as it was. *)
C18_CampaignsIndependent ==
    [][\A a \in NestingCampaigns :
         (\/ StoreLoadDonations(a)
          \/ StoreLoadMilestones(a)
          \/ \E lastDonationDate \in Times, ids \in IdLists, done \in PushesDone :
               StoreSaveDonations(a, lastDonationDate, ids, done)
          \/ \E milestones \in MilestoneLists : StoreSaveMilestones(a, milestones))
           => \A b \in StoreCampaigns \ {a} : db'[b] = db[b]]_vars

----------------------------------------------------------------------------
(* C17: stop(campaignId) is cooperative: it drops the session with its
   schedule and touches neither the ticks in flight nor the store; a tick in
   flight when the session is gone still completes and, when its fetch
   returns, persists its result; no tick begins for a campaign whose session
   is not started. *)
C17_StopIsCooperative ==
    /\ [][\A c \in Campaigns :
            StoppedNow(c)
              => /\ sessions'[c] = NoSession
                 /\ ticks' = ticks
                 /\ db' = db]_vars
    /\ [][\A c \in Campaigns :
            (TickEndedNow(c) /\ ~IsStarted(c) /\ networkUp)
              => /\ db'[c].milestones = {FetchMilestones(c)}
                 /\ db'[c].ids # {}
                 /\ db'[c].lastDonationDate # {}
                 /\ \A k \in 1..Len(The(db[c].ids)) :
                      Includes(The(db'[c].ids), The(db[c].ids)[k])]_vars
    /\ [][\A c \in Campaigns : TickBeganNow(c) => IsStarted(c)]_vars

\* The session has been stopped while a tick is in flight whose result is
\* not stored yet.
C17_Witness ==
    \E c \in Campaigns :
        /\ ~sessions[c].exists
        /\ ticks[c] # <<>>
        /\ db[c].milestones = {}

----------------------------------------------------------------------------
(* C19: however onUserSettingsUpdate, connect and disconnect interleave, at
   most one campaign has a started poll session at any time, and a connect
   that a disconnect overtook while it awaited the poll service does not
   make the integration connected when it resumes. *)
C19_InterleavingsKeepOneSession ==
    /\ [](\A a, b \in Campaigns : (IsStarted(a) /\ IsStarted(b)) => a = b)
    /\ [][\A i \in Slots :
            (ConnectResume(i) /\ conn[i].interrupted /\ ~connected) => ~connected']_vars

----------------------------------------------------------------------------
\* connect() throws at the read of the poll interval: the campaign id is
\* there, integrationSettings is not.
ConnectThrows(data) ==
    IsIntegrationConfigValid(data) /\ "integrationSettings" \notin data.present

\* The connect() call of slot i resumed after its await and returned.
ResumedNow(i) == conn[i].pc = "resolved" /\ conn'[i].pc = "idle"

Signals == {"connected", "disconnected"}

(* C20: every connect() call that returns has emitted exactly one of
   connected / disconnected, and every disconnect() call exactly one
   disconnected (an onUserSettingsUpdate emits what its disconnect and its
   connect emit); whenever no connect call is under way, the connected flag
   is true if and only if the last signal emitted was connected; the flag
   becomes true only in a connect that found its campaign's session started
   after the await. *)
C20_SignalsMatchFlag ==
    /\ [][(Connect /\ conn' = conn /\ ~ConnectThrows(settings))
            => Len(signals') = 1 /\ signals'[1] \in Signals]_vars
    /\ [][\A i \in Slots :
            ResumedNow(i)
              => /\ Len(signals') = 1
                 /\ signals'[1] \in Signals
                 /\ connected' <=> signals'[1] = "connected"]_vars
    /\ [][Disconnect => signals' = <<"disconnected">>]_vars
    /\ [][\A data \in ConfigSet :
            OnUserSettingsUpdate(data)
              => LET returned == (\A i \in Slots : conn'[i].pc = conn[i].pc)
                                    /\ ~ConnectThrows(data)
                 IN /\ connected => Len(signals') >= 1 /\ signals'[1] = "disconnected"
                    /\ (connected /\ returned)
                         => Len(signals') = 2 /\ signals'[2] \in Signals
                    /\ (~connected /\ returned)
                         => Len(signals') = 1 /\ signals'[1] \in Signals]_vars
    /\ []((\A i \in Slots : conn[i].pc = "idle")
            => (connected <=> lastSignal = "connected"))
    /\ [][(connected' /\ ~connected)
            => \E i \in Slots : ResumedNow(i) /\ IsStarted(conn[i].campaignId)]_vars

\* A connect has returned connected for a started session, no call is under
\* way, and the signal of the last call that ended is the one `connected`.
C20_Witness ==
    /\ \A i \in Slots : conn[i].pc = "idle"
    /\ connected
    /\ lastSignal = "connected"
    /\ signals = <<"connected">>
    /\ \E c \in Campaigns : IsStarted(c)

----------------------------------------------------------------------------
(* C21: isTokenValid() resolves to a boolean on every path: to true exactly
   when the stored token validates or, the token missing or not validating,
   the one refresh succeeds; to false otherwise; never to undefined and never
   by throwing. *)
C21_TokenCheckIsBoolean ==
    [][IsTokenValid
         => /\ tokenCheck'.result \in {"true", "false"}
            /\ tokenCheck'.result = "true"
                 <=> \/ auth = "valid"
                     \/ (auth \in {"null", "expired"} /\ networkUp)]_vars

====
